---------------------------- MODULE Spec2Model ----------------------------
(***************************************************************************)
(* A model of the atom-feed crate (src/src/lib.rs): the fluent builder of  *)
(* an AtomFeed and the serializer that walks a feed and hands a fixed       *)
(* sequence of XML events to a quick_xml Writer wrapping the caller's sink. *)
(*                                                                         *)
(* The sink is modelled at the granularity of Writer::write_event calls:   *)
(* what it has received is the sequence of events written in full; the    *)
(* bytes a failed write may have left behind, escaping and byte encoding   *)
(* are the writer's and the sink's work and are not modelled.              *)
(***************************************************************************)
EXTENDS Integers, Sequences, FiniteSets, TLC

VARIABLES
    feed,      \* the AtomFeed value the caller serializes (&self)
    pc,        \* "ready" | "writing" | "ok" | "err": position of write_to
    pos,       \* index of the next write_event call of AtomFeed::write
    sink,      \* the events the sink of the current call has received
    failed,    \* history: the errors the sink has raised during this call
    result,    \* what write_to returned: <<>>, <<"Ok">> or <<"Err", e>>
    prev,      \* history: the sink of the previous successful call, if any
    builder,   \* the AtomFeedBuilder's wrapped AtomFeed (self.0)
    bpc,       \* "building" | "built"
    calls,     \* number of setter calls made on the builder
    last,      \* history: per field, the argument of the latest setter call
    title0     \* history: the title given to AtomFeedBuilder::new

vars == <<feed, pc, pos, sink, failed, result, prev,
          builder, bpc, calls, last, title0>>
serVars == <<feed, pc, pos, sink, failed, result, prev>>
buildVars == <<builder, bpc, calls, last, title0>>

(***************************************************************************)
(* Bounds of the model.                                                    *)
(***************************************************************************)
MaxEntries == 2     \* longest entries list of a feed
MaxPersons == 2     \* longest authors / contributors list of an entry
MaxCategories == 2  \* longest categories list of an entry
MaxCalls == 4       \* most setter calls on one builder

(***************************************************************************)
(* Option<T>: None is the empty sequence, Some(v) the one-element one.     *)
(***************************************************************************)
None == <<>>
Some(v) == <<v>>
IsSome(o) == o # <<>>
Unwrap(o) == o[1]

(***************************************************************************)
(* quick_xml events, as the serializer constructs them.                    *)
(***************************************************************************)
Attr(k, v) == <<k, v>>
Decl(version, encoding) ==
    [kind |-> "Decl", name |-> "xml",
     attrs |-> <<Attr("version", version), Attr("encoding", encoding)>>,
     text |-> ""]
Start(name, attrs) == [kind |-> "Start", name |-> name, attrs |-> attrs, text |-> ""]
End(name) == [kind |-> "End", name |-> name, attrs |-> <<>>, text |-> ""]
Empty(name, attrs) == [kind |-> "Empty", name |-> name, attrs |-> attrs, text |-> ""]
Text(t) == [kind |-> "Text", name |-> "", attrs |-> <<>>, text |-> t]

\* writer.create_element(name).with_attribute(..).write_text_content(text):
\* three write_event calls, Start, Text, End.
WriteTextContent(name, attrs, text) == <<Start(name, attrs), Text(text), End(name)>>

(***************************************************************************)
(* DateTime<Tz>: the local date-time text and the offset from UTC in       *)
(* minutes.  to_rfc3339 prints the local time followed by the offset as    *)
(* +hh:mm or -hh:mm (never "Z").                                           *)
(***************************************************************************)
Digit(n) == <<"0", "1", "2", "3", "4", "5", "6", "7", "8", "9">>[n + 1]
TwoDigits(n) == Digit((n \div 10) % 10) \o Digit(n % 10)
Abs(n) == IF n < 0 THEN -n ELSE n
to_rfc3339(dt) ==
    dt.local \o (IF dt.offset < 0 THEN "-" ELSE "+")
             \o TwoDigits(Abs(dt.offset) \div 60) \o ":" \o TwoDigits(Abs(dt.offset) % 60)

RECURSIVE Concat(_)
\* The events of a loop body run once per element, in list order.
Concat(ss) == IF ss = <<>> THEN <<>> ELSE Head(ss) \o Concat(Tail(ss))

OptSeq(o, s) == IF IsSome(o) THEN s ELSE <<>>

(***************************************************************************)
(* The serializers: the sequence of write_event calls each makes when no   *)
(* write fails.                                                            *)
(***************************************************************************)
Generator_write(g) ==
    LET tag == OptSeq(g.uri, <<Attr("uri", Unwrap(g.uri))>>)
               \o OptSeq(g.version, <<Attr("version", Unwrap(g.version))>>)
    IN  <<Start("generator", tag), Text(g.name), End("generator")>>

\* Defect: the email is written before the uri.
Person_write_email_first(p) ==
    WriteTextContent("name", <<>>, p.name)
    \o OptSeq(p.email, WriteTextContent("email", <<>>, Unwrap(p.email)))
    \o OptSeq(p.uri, WriteTextContent("uri", <<>>, Unwrap(p.uri)))

Person_write(p) ==
    WriteTextContent("name", <<>>, p.name)
    \o OptSeq(p.uri, WriteTextContent("uri", <<>>, Unwrap(p.uri)))
    \o OptSeq(p.email, WriteTextContent("email", <<>>, Unwrap(p.email)))

\* The entry's alternate link, carrying the entry's own title.
Entry_link(e) ==
    OptSeq(e.uri,
           <<Empty("link", <<Attr("href", Unwrap(e.uri)), Attr("rel", "alternate"),
                             Attr("type", "text/html"), Attr("title", e.title)>>)>>)

\* One <author> or <contributor> block: the wrapper around Person::write.
Wrapped(tag, p) == <<Start(tag, <<>>)>> \o Person_write(p) \o <<End(tag)>>

\* Defect: the contributors loop runs before the authors loop.
Entry_lists_contributors_first(e) ==
    Concat([i \in 1..Len(e.contributors) |-> Wrapped("contributor", e.contributors[i])])
    \o Concat([i \in 1..Len(e.authors) |-> Wrapped("author", e.authors[i])])
    \o Concat([i \in 1..Len(e.categories) |->
                 <<Empty("category", <<Attr("term", e.categories[i])>>)>>])

\* The three loops of AtomEntry::write: authors, contributors, categories.
Entry_lists(e) ==
    Concat([i \in 1..Len(e.authors) |-> Wrapped("author", e.authors[i])])
    \o Concat([i \in 1..Len(e.contributors) |-> Wrapped("contributor", e.contributors[i])])
    \o Concat([i \in 1..Len(e.categories) |->
                 <<Empty("category", <<Attr("term", e.categories[i])>>)>>])

\* Defect: the closing </entry> is forgotten.
Entry_tail_unclosed(e) ==
    OptSeq(e.summary,
           WriteTextContent("summary", <<Attr("type", "html")>>, Unwrap(e.summary)))
    \o OptSeq(e.content,
              WriteTextContent("content", <<Attr("type", "html")>>, Unwrap(e.content)))

\* Summary, content and the closing </entry>.
Entry_tail(e) ==
    OptSeq(e.summary,
           WriteTextContent("summary", <<Attr("type", "html")>>, Unwrap(e.summary)))
    \o OptSeq(e.content,
              WriteTextContent("content", <<Attr("type", "html")>>, Unwrap(e.content)))
    \o <<End("entry")>>

AtomEntry_write(e) ==
    <<Start("entry", <<>>)>>
    \o WriteTextContent("title", <<>>, e.title)
    \o Entry_link(e)
    \o OptSeq(e.published,
              WriteTextContent("published", <<>>, to_rfc3339(Unwrap(e.published))))
    \o OptSeq(e.updated,
              WriteTextContent("updated", <<>>, to_rfc3339(Unwrap(e.updated))))
    \o OptSeq(e.id, WriteTextContent("id", <<>>, Unwrap(e.id)))
    \o Entry_lists(e)
    \o Entry_tail(e)

\* Defect: the alternate link is written before the self link.
Feed_links_swapped(f) ==
    OptSeq(f.uri,
           <<Empty("link", <<Attr("href", Unwrap(f.uri)), Attr("rel", "alternate"),
                             Attr("type", "text/html")>>)>>)
    \o OptSeq(f.self_uri,
              <<Empty("link", <<Attr("href", Unwrap(f.self_uri)), Attr("rel", "self"),
                                Attr("type", "application/atom+xml")>>)>>)

\* The self link, then the alternate link.
Feed_links(f) ==
    OptSeq(f.self_uri,
           <<Empty("link", <<Attr("href", Unwrap(f.self_uri)), Attr("rel", "self"),
                             Attr("type", "application/atom+xml")>>)>>)
    \o OptSeq(f.uri,
              <<Empty("link", <<Attr("href", Unwrap(f.uri)), Attr("rel", "alternate"),
                                Attr("type", "text/html")>>)>>)

\* Defect: an id that is the empty string is treated as absent.
Feed_meta_nonempty_id(f) ==
    OptSeq(f.published,
           WriteTextContent("published", <<>>, to_rfc3339(Unwrap(f.published))))
    \o OptSeq(f.updated,
              WriteTextContent("updated", <<>>, to_rfc3339(Unwrap(f.updated))))
    \o (IF IsSome(f.id) /\ f.id # Some("")
        THEN WriteTextContent("id", <<>>, Unwrap(f.id)) ELSE <<>>)
    \o WriteTextContent("title", <<>>, f.title)
    \o OptSeq(f.subtitle, WriteTextContent("subtitle", <<>>, Unwrap(f.subtitle)))

\* Defect (or extension): the rights field is written as a <rights> element.
Feed_meta_with_rights(f) ==
    OptSeq(f.published,
           WriteTextContent("published", <<>>, to_rfc3339(Unwrap(f.published))))
    \o OptSeq(f.updated,
              WriteTextContent("updated", <<>>, to_rfc3339(Unwrap(f.updated))))
    \o OptSeq(f.id, WriteTextContent("id", <<>>, Unwrap(f.id)))
    \o WriteTextContent("title", <<>>, f.title)
    \o OptSeq(f.subtitle, WriteTextContent("subtitle", <<>>, Unwrap(f.subtitle)))
    \o OptSeq(f.rights, WriteTextContent("rights", <<>>, Unwrap(f.rights)))

\* Published, updated, id, title and subtitle.
Feed_meta(f) ==
    OptSeq(f.published,
           WriteTextContent("published", <<>>, to_rfc3339(Unwrap(f.published))))
    \o OptSeq(f.updated,
              WriteTextContent("updated", <<>>, to_rfc3339(Unwrap(f.updated))))
    \o OptSeq(f.id, WriteTextContent("id", <<>>, Unwrap(f.id)))
    \o WriteTextContent("title", <<>>, f.title)
    \o OptSeq(f.subtitle, WriteTextContent("subtitle", <<>>, Unwrap(f.subtitle)))

\* Defect: the loop stops one entry short.
Feed_entries_skip_last(f) ==
    Concat([i \in 1..(Len(f.entries) - 1) |-> AtomEntry_write(f.entries[i])])

\* for entry in &self.entries { entry.write(writer)?; }
Feed_entries(f) == Concat([i \in 1..Len(f.entries) |-> AtomEntry_write(f.entries[i])])

AtomFeed_write(f) ==
    <<Decl("1.0", "utf-8")>>
    \o <<Start("feed", <<Attr("xmlns", "http://www.w3.org/2005/Atom")>>)>>
    \o OptSeq(f.generator, Generator_write(Unwrap(f.generator)))
    \o Feed_links(f)
    \o Feed_meta(f)
    \o Feed_entries(f)
    \o <<End("feed")>>

(***************************************************************************)
(* The values the model serializes.  Every field has its own texts, so a   *)
(* value written under the wrong element is seen; some present values are  *)
(* the empty string.                                                       *)
(***************************************************************************)
T1 == [local |-> "2023-01-15T10:30:00", offset |-> 0]
T2 == [local |-> "2023-01-15T16:00:00", offset |-> 330]
T3 == [local |-> "2023-01-14T21:15:09", offset |-> -495]

\* Person::new(name), then uri(..) and email(..) as given.
Person(name, uri, email) == [name |-> name, uri |-> uri, email |-> email]
\* Generator::new(name), then uri(..) and version(..) as given.
Generator(name, uri, version) == [uri |-> uri, version |-> version, name |-> name]

PersonRing ==
    <<Person("Alice", None, None),
      Person("Bob", Some("https://bob.example"), None),
      Person("Carol", None, Some("carol@example.org")),
      Person("Dave", Some(""), Some("dave@example.org"))>>
CategoryRing == <<"rust", "xml", "">>

\* The k elements of ring that follow position s, cyclically.
Run(ring, s, k) == [i \in 1..k |-> ring[((s + i - 2) % Len(ring)) + 1]]

AuthorLists == {Run(PersonRing, s, k) : s \in 1..Len(PersonRing), k \in 0..MaxPersons}
ContributorLists == {Run(PersonRing, 4, k) : k \in 0..MaxPersons}
CategoryLists == {Run(CategoryRing, 1, k) : k \in 0..MaxCategories}

\* AtomEntry::new(title), then the setters as given.
\* (title, uri, published, updated, id, categories, authors, contributors,
\* content, summary)
Entry(t, u, p, d, i, cs, as, bs, c, s) ==
    [title |-> t, uri |-> u, published |-> p, updated |-> d, id |-> i,
     categories |-> cs, authors |-> as, contributors |-> bs, content |-> c,
     summary |-> s]

OptOf(v) == {None, Some(v)}

\* Entries with every combination of optional fields and no list element.
PlainEntries ==
    {Entry("Hello", u, p, d, i, <<>>, <<>>, <<>>, c, s) :
        u \in OptOf("https://example.org/hello"), p \in OptOf(T2), d \in OptOf(T3),
        i \in OptOf("urn:test:e1"), c \in OptOf("<p>Hi</p>"), s \in OptOf("")}
\* Entries with every combination of lists, on no or on every optional field.
ListedEntries ==
    {Entry("Hello", None, None, None, None, cs, as, bs, None, None) :
        cs \in CategoryLists, as \in AuthorLists, bs \in ContributorLists}
    \cup
    {Entry("World & <all>", Some("https://example.org/world"), Some(T1), Some(T3),
           Some("urn:test:e2"), Run(CategoryRing, 2, MaxCategories),
           Run(PersonRing, 3, a), Run(PersonRing, 2, MaxPersons), Some("body"),
           Some("short")) :
        a \in 0..MaxPersons}

EntryRing ==
    <<Entry("Hello", None, None, None, None, <<>>, <<PersonRing[1]>>, <<>>, None, None),
      Entry("World & <all>", Some("https://example.org/world"), Some(T1), Some(T3),
            Some("urn:test:e2"), <<"rust">>, <<PersonRing[2]>>, <<PersonRing[4]>>,
            Some("body"), Some("short")),
      Entry("", None, Some(T2), None, Some(""), <<>>, <<>>, <<PersonRing[3]>>,
            None, Some("s"))>>
RECURSIVE SeqsUpTo(_, _)
SeqsUpTo(S, n) ==
    IF n = 0 THEN {<<>>}
    ELSE LET shorter == SeqsUpTo(S, n - 1)
         IN  shorter \cup {Append(q, x) : q \in shorter, x \in S}
EntryLists == SeqsUpTo({EntryRing[i] : i \in 1..Len(EntryRing)}, MaxEntries)

Generators ==
    {Generator("atom-feed", u, v) : u \in OptOf("https://example.org/gen"), v \in OptOf("0.1")}
Rights == {None, Some("(c) Ann"), Some("(c) Ben")}

\* An AtomFeed of the given (title, generator, published, updated, uri,
\* self_uri, id, subtitle, rights, entries).
Feed(t, g, p, d, u, su, i, st, r, es) ==
    [generator |-> g, published |-> p, updated |-> d, uri |-> u, self_uri |-> su,
     id |-> i, title |-> t, subtitle |-> st, rights |-> r, entries |-> es]

\* Feeds with every combination of optional feed fields and no entry.
PlainFeeds ==
    {Feed("Test Feed", g, p, d, u, su, i, st, r, <<>>) :
        g \in OptOf(Generator("atom-feed", Some("https://example.org/gen"), Some("0.1"))),
        p \in OptOf(T1), d \in OptOf(T2), u \in OptOf("https://example.org/"),
        su \in OptOf("https://example.org/feed.xml"), i \in OptOf("urn:test:1"),
        st \in OptOf("A & B"), r \in {None}}
    \cup
    {Feed(t, g, None, None, None, None, i, None, r, <<>>) :
        t \in {"", "<T>"}, g \in {None} \cup {Some(x) : x \in Generators},
        i \in {None, Some("")}, r \in Rights}
\* Feeds with every short list of entries, on no or on every optional field.
ListedFeeds ==
    {Feed("Test Feed", None, None, None, None, None, Some("urn:test:1"), None, None, es) :
        es \in EntryLists}
    \cup
    {Feed("Test Feed", Some(Generator("atom-feed", None, Some("0.1"))), Some(T1),
          Some(T2), Some("https://example.org/"), Some("https://example.org/feed.xml"),
          Some("urn:test:1"), Some(""), Some("(c) Ben"), es) :
        es \in EntryLists}
\* Feeds of one entry, the entry taken from the rich pools.
OneEntryFeeds ==
    {Feed("Test Feed", None, None, None, None, None, None, None, None, <<e>>) :
        e \in PlainEntries \cup ListedEntries}
Feeds == PlainFeeds \cup ListedFeeds \cup OneEntryFeeds

SinkErrors == {"BrokenPipe", "WriteZero"}

(***************************************************************************)
(* AtomFeed::write_to and the steps of AtomFeed::write.                    *)
(***************************************************************************)
\* Defect: the error of a failed write is dropped and the traversal goes on.
Swallow(e) ==
    /\ pc' = "writing"
    /\ result' = result
    /\ pos' = pos + 1

\* `?` on a failed write: the error is returned at once, nothing else runs.
Propagate(e) ==
    /\ pc' = "err"
    /\ result' = <<"Err", e>>
    /\ pos' = pos

\* write_to is called with a fresh sink: Writer::new(writer).
WriteTo ==
    /\ pc \in {"ready", "ok", "err"}
    /\ pc' = "writing"
    /\ pos' = 1
    /\ sink' = <<>>
    /\ failed' = <<>>
    /\ result' = <<>>
    /\ prev' = IF pc = "ok" THEN Some(sink) ELSE prev
    /\ UNCHANGED <<feed, buildVars>>

\* The next write_event call of the traversal succeeds.
WriteEvent ==
    /\ pc = "writing"
    /\ LET events == AtomFeed_write(feed)
       IN  pos <= Len(events) /\ sink' = Append(sink, events[pos])
    /\ pos' = pos + 1
    /\ UNCHANGED <<feed, pc, failed, result, prev, buildVars>>

\* The next write_event call fails with an error e of the sink.
WriteError ==
    /\ pc = "writing"
    /\ LET events == AtomFeed_write(feed)
       IN  /\ pos <= Len(events)
           /\ \E e \in SinkErrors :
                /\ failed' = Append(failed, e)
                /\ Propagate(e)
    /\ UNCHANGED <<feed, sink, prev, buildVars>>

\* AtomFeed::write returned Ok(()): write_to hands the sink back.
Return ==
    /\ pc = "writing"
    /\ pos = Len(AtomFeed_write(feed)) + 1
    /\ pc' = "ok"
    /\ result' = <<"Ok">>
    /\ UNCHANGED <<feed, pos, sink, failed, prev, buildVars>>

Init ==
    /\ feed \in Feeds
    /\ pc = "ready"
    /\ pos = 0
    /\ sink = <<>>
    /\ failed = <<>>
    /\ result = <<>>
    /\ prev = None
    /\ builder = feed
    /\ bpc = "built"
    /\ calls = 0
    /\ last = <<>>
    /\ title0 = feed.title

Next ==
    \/ WriteTo
    \/ WriteEvent
    \/ WriteError
    \/ Return

Spec == Init /\ [][Next]_vars


(***************************************************************************)
(* AtomFeedBuilder: new, the nine setters and build.  Each setter takes    *)
(* the builder by value and returns it with one field assigned.            *)
(***************************************************************************)
AtomFeedBuilder_new(title) ==
    [title |-> title, generator |-> None, uri |-> None, self_uri |-> None,
     published |-> None, updated |-> None, id |-> None, subtitle |-> None,
     rights |-> None, entries |-> <<>>]

AtomFeedBuilder_generator(b, generator) == [b EXCEPT !.generator = Some(generator)]
AtomFeedBuilder_uri(b, uri) == [b EXCEPT !.uri = Some(uri)]
AtomFeedBuilder_self_uri(b, uri) == [b EXCEPT !.self_uri = Some(uri)]
AtomFeedBuilder_id(b, id) == [b EXCEPT !.id = Some(id)]
AtomFeedBuilder_subtitle(b, subtitle) == [b EXCEPT !.subtitle = Some(subtitle)]
AtomFeedBuilder_rights(b, rights) == [b EXCEPT !.rights = Some(rights)]
AtomFeedBuilder_published(b, published) == [b EXCEPT !.published = Some(published)]
AtomFeedBuilder_updated(b, updated) == [b EXCEPT !.updated = Some(updated)]
\* Defect: entries(list) appends to the stored list.
AtomFeedBuilder_entries_append(b, entries) == [b EXCEPT !.entries = b.entries \o entries]
AtomFeedBuilder_entries(b, entries) == [b EXCEPT !.entries = entries]
AtomFeedBuilder_build(b) == b

SetterFields ==
    {"generator", "uri", "self_uri", "id", "subtitle", "rights", "published",
     "updated", "entries"}

\* The arguments the model passes to the setters.
TitleArgs == {"Test Feed", ""}
GeneratorArgs ==
    {Generator("atom-feed", None, None), Generator("gen", Some("https://example.org/gen"), Some("0.1"))}
UriArgs == {"https://example.org/", ""}
SelfUriArgs == {"https://example.org/feed.xml", "https://example.org/"}
IdArgs == {"urn:test:1", "urn:test:2"}
SubtitleArgs == {"A & B", ""}
RightsArgs == {"(c) Ann", "(c) Ben"}
PublishedArgs == {T1, T2}
UpdatedArgs == {T2, T3}
EntriesArgs == {<<>>, <<EntryRing[1]>>, <<EntryRing[2], EntryRing[1]>>}

\* One setter call: the builder becomes b, and field's latest argument arg.
Called(b, field, arg) ==
    /\ bpc = "building"
    /\ calls < MaxCalls
    /\ builder' = b
    /\ calls' = calls + 1
    /\ last' = [last EXCEPT ![field] = Some(arg)]
    /\ UNCHANGED <<bpc, title0, serVars>>

SetGenerator == \E a \in GeneratorArgs :
    Called(AtomFeedBuilder_generator(builder, a), "generator", a)
SetUri == \E a \in UriArgs : Called(AtomFeedBuilder_uri(builder, a), "uri", a)
SetSelfUri == \E a \in SelfUriArgs :
    Called(AtomFeedBuilder_self_uri(builder, a), "self_uri", a)
SetId == \E a \in IdArgs : Called(AtomFeedBuilder_id(builder, a), "id", a)
SetSubtitle == \E a \in SubtitleArgs :
    Called(AtomFeedBuilder_subtitle(builder, a), "subtitle", a)
SetRights == \E a \in RightsArgs :
    Called(AtomFeedBuilder_rights(builder, a), "rights", a)
SetPublished == \E a \in PublishedArgs :
    Called(AtomFeedBuilder_published(builder, a), "published", a)
SetUpdated == \E a \in UpdatedArgs :
    Called(AtomFeedBuilder_updated(builder, a), "updated", a)
SetEntries == \E a \in EntriesArgs :
    Called(AtomFeedBuilder_entries(builder, a), "entries", a)

\* build(): the builder is consumed and its feed handed to the caller.
Build ==
    /\ bpc = "building"
    /\ bpc' = "built"
    /\ feed' = AtomFeedBuilder_build(builder)
    /\ UNCHANGED <<pc, pos, sink, failed, result, prev,
                   builder, calls, last, title0>>

InitBuild ==
    /\ \E t \in TitleArgs : builder = AtomFeedBuilder_new(t) /\ title0 = t
    /\ bpc = "building"
    /\ calls = 0
    /\ last = [f \in SetterFields |-> None]
    /\ feed = None
    /\ pc = "ready"
    /\ pos = 0
    /\ sink = <<>>
    /\ failed = <<>>
    /\ result = <<>>
    /\ prev = None

NextBuild ==
    \/ SetGenerator
    \/ SetUri
    \/ SetSelfUri
    \/ SetId
    \/ SetSubtitle
    \/ SetRights
    \/ SetPublished
    \/ SetUpdated
    \/ SetEntries
    \/ Build

SpecBuild == InitBuild /\ [][NextBuild]_vars


(***************************************************************************)
(* Reading a sink back: the depth of every event, the nodes at a depth.    *)
(***************************************************************************)
IsPrefix(a, b) == Len(a) <= Len(b) /\ a = SubSeq(b, 1, Len(a))

RECURSIVE DepthsFrom(_, _, _)
\* For each event of s from the i-th on, the number of elements open before it.
DepthsFrom(s, i, d) ==
    IF i > Len(s) THEN <<>>
    ELSE <<d>> \o DepthsFrom(s, i + 1,
                    d + (IF s[i].kind = "Start" THEN 1
                         ELSE IF s[i].kind = "End" THEN -1 ELSE 0))
Depths(s) == DepthsFrom(s, 1, 0)

Indices(s) == [i \in 1..Len(s) |-> i]
NonZero(n) == n # 0

\* The value of attribute k of an event, or None.
AttrOf(ev, k) ==
    LET hits == {i \in 1..Len(ev.attrs) : ev.attrs[i][1] = k}
    IN  IF hits = {} THEN None ELSE Some(ev.attrs[CHOOSE i \in hits : TRUE][2])

(***************************************************************************)
(* C1.  The top-level nodes of a document come in the order: declaration,  *)
(* <feed>, generator, self link, alternate link, published, updated, id,   *)
(* title, subtitle, entries, </feed>.                                      *)
(***************************************************************************)
\* The step of the order an event at depth d belongs to; 0 for an event that
\* opens no top-level node, 99 for a top-level node the order does not know.
TopRank(ev, d) ==
    CASE d = 0 /\ ev.kind = "Decl" -> 1
      [] d = 0 /\ ev.kind = "Start" /\ ev.name = "feed" -> 2
      [] d = 0 -> 99
      [] d = 1 /\ ev.kind = "End" /\ ev.name = "feed" -> 12
      [] d = 1 /\ ev.kind = "Start" ->
            (CASE ev.name = "generator" -> 3
               [] ev.name = "published" -> 6
               [] ev.name = "updated" -> 7
               [] ev.name = "id" -> 8
               [] ev.name = "title" -> 9
               [] ev.name = "subtitle" -> 10
               [] ev.name = "entry" -> 11
               [] OTHER -> 99)
      [] d = 1 /\ ev.kind = "Empty" ->
            (CASE ev.name = "link" /\ AttrOf(ev, "rel") = Some("self") -> 4
               [] ev.name = "link" /\ AttrOf(ev, "rel") = Some("alternate") -> 5
               [] OTHER -> 99)
      [] OTHER -> 0

AllTopRanks(s) == LET depth == Depths(s) IN [i \in 1..Len(s) |-> TopRank(s[i], depth[i])]
TopRanks(s) == SelectSeq(AllTopRanks(s), NonZero)

Step(present, rank) == IF present THEN <<rank>> ELSE <<>>
ExpectedTopRanks(f) ==
    <<1, 2>> \o Step(IsSome(f.generator), 3) \o Step(IsSome(f.self_uri), 4)
    \o Step(IsSome(f.uri), 5) \o Step(IsSome(f.published), 6)
    \o Step(IsSome(f.updated), 7) \o Step(IsSome(f.id), 8) \o <<9>>
    \o Step(IsSome(f.subtitle), 10) \o [i \in 1..Len(f.entries) |-> 11] \o <<12>>

\* The exact form of the declaration, the <feed> tag and the two links.
TopForms(s, f) ==
    LET rank == AllTopRanks(s)
    IN  \A i \in 1..Len(s) :
          /\ rank[i] = 1 =>
               s[i].attrs = <<<<"version", "1.0">>, <<"encoding", "utf-8">>>>
          /\ rank[i] = 2 =>
               s[i].attrs = <<<<"xmlns", "http://www.w3.org/2005/Atom">>>>
          /\ rank[i] = 4 =>
               /\ IsSome(f.self_uri)
               /\ s[i].attrs = <<<<"href", Unwrap(f.self_uri)>>, <<"rel", "self">>,
                                 <<"type", "application/atom+xml">>>>
          /\ rank[i] = 5 =>
               /\ IsSome(f.uri)
               /\ s[i].attrs = <<<<"href", Unwrap(f.uri)>>, <<"rel", "alternate">>,
                                 <<"type", "text/html">>>>

\* C1: at every point of a serialization the top-level nodes written so far
\* are the first steps of the required order for this feed, each in its
\* exact form, and a successful serialization has written all of them.
\* (A failed call's sink is the sink of the point where the write failed.)
C1_TopLevelOrder ==
    pc \in {"writing", "ok"} =>
        /\ IsPrefix(TopRanks(sink), ExpectedTopRanks(feed))
        /\ TopForms(sink, feed)
        /\ pc = "ok" => TopRanks(sink) = ExpectedTopRanks(feed)

C1_Witness ==
    /\ pc = "ok"
    /\ IsSome(feed.generator) /\ IsSome(feed.self_uri) /\ IsSome(feed.uri)
    /\ IsSome(feed.published) /\ IsSome(feed.updated) /\ IsSome(feed.id)
    /\ IsSome(feed.subtitle) /\ Len(feed.entries) >= 2
    /\ TopRanks(sink) = <<1, 2, 3, 4, 5, 6, 7, 8, 9, 10>>
                        \o [i \in 1..Len(feed.entries) |-> 11] \o <<12>>

(***************************************************************************)
(* C3.  A feed of N entries serializes to N entry blocks, in list order.   *)
(***************************************************************************)
EntryStarts(s) ==
    LET depth == Depths(s)
        IsStart(i) == depth[i] = 1 /\ s[i].kind = "Start" /\ s[i].name = "entry"
    IN  SelectSeq(Indices(s), IsStart)
EntryEnds(s) ==
    LET depth == Depths(s)
        IsEnd(i) == depth[i] = 2 /\ s[i].kind = "End" /\ s[i].name = "entry"
    IN  SelectSeq(Indices(s), IsEnd)
\* The texts of the <title> children of the block s[a..b].
BlockTitles(s, a, b) ==
    LET depth == Depths(s)
    IN  {s[j + 1].text : j \in {j \in a..(b - 1) :
            depth[j] = 2 /\ s[j].kind = "Start" /\ s[j].name = "title"}}
\* The places of the feed's own <title> and <subtitle>.
FeedTitlePlaces(s) ==
    LET depth == Depths(s)
    IN  {j \in 1..Len(s) : depth[j] = 1 /\ s[j].name \in {"title", "subtitle"}}

\* C3: a successful serialization holds exactly one entry block per entry
\* of the list, the i-th with the i-th entry's title, none overlapping, all
\* after the feed's title and subtitle and before </feed>; and no point of
\* a serialization has opened more blocks than the list has entries.
C3_EntryBlocks ==
    LET a == EntryStarts(sink)
        b == EntryEnds(sink)
        n == Len(feed.entries)
    IN  /\ pc = "writing" => Len(a) <= n
        /\ pc = "ok" =>
             /\ Len(a) = n /\ Len(b) = n
             /\ \A k \in 1..n :
                  /\ a[k] < b[k]
                  /\ k < n => b[k] < a[k + 1]
                  /\ BlockTitles(sink, a[k], b[k]) = {feed.entries[k].title}
                  /\ b[k] < Len(sink)
             /\ \A j \in FeedTitlePlaces(sink) : \A k \in 1..n : j < a[k]
             /\ sink[Len(sink)] = End("feed")

C3_Witness ==
    /\ pc = "ok"
    /\ Len(feed.entries) >= 2
    /\ feed.entries[1].title # feed.entries[2].title
    /\ Len(EntryStarts(sink)) = Len(feed.entries)

(***************************************************************************)
(* C5.  The first failed write ends the serialization.                     *)
(***************************************************************************)
\* C5: the sink raises at most one error in a call; once it has, write_to
\* has returned that error, the events received are a strict prefix of the
\* failure-free sequence for this feed (and of what an earlier successful
\* call produced), and no write was made after the failed one.
C5_FailFast ==
    LET full == AtomFeed_write(feed)
    IN  /\ Len(failed) <= 1
        /\ failed # <<>> => pc = "err"
        /\ pc = "err" =>
             /\ Len(failed) = 1
             /\ result = <<"Err", failed[1]>>
             /\ Len(sink) < Len(full)
             /\ IsPrefix(sink, full)
             /\ pos = Len(sink) + 1
             /\ prev # None => IsPrefix(sink, Unwrap(prev)) /\ sink # Unwrap(prev)

C5_Witness ==
    /\ pc = "err"
    /\ result = <<"Err", "BrokenPipe">>
    /\ Len(sink) > 8
    /\ prev # None
    /\ Len(feed.entries) >= 1

(***************************************************************************)
(* C6.  What a successful call hands back is a well-formed document.       *)
(***************************************************************************)
Last(q) == q[Len(q)]
Front(q) == SubSeq(q, 1, Len(q) - 1)

RECURSIVE StackFrom(_, _, _)
\* The open elements after the events of s from the i-th on, starting with
\* st open; ok is FALSE when an end tag does not close the innermost one.
StackFrom(s, i, st) ==
    IF i > Len(s) THEN [ok |-> TRUE, stack |-> st]
    ELSE IF s[i].kind = "Start" THEN StackFrom(s, i + 1, Append(st, s[i].name))
    ELSE IF s[i].kind = "End"
         THEN IF st # <<>> /\ Last(st) = s[i].name
              THEN StackFrom(s, i + 1, Front(st))
              ELSE [ok |-> FALSE, stack |-> st]
    ELSE StackFrom(s, i + 1, st)
StackOf(s) == StackFrom(s, 1, <<>>)

Containers ==
    {<<"feed">>, <<"feed", "entry">>, <<"feed", "entry", "author">>,
     <<"feed", "entry", "contributor">>}
LeafNames ==
    {"published", "updated", "id", "title", "subtitle", "name", "uri", "email",
     "summary", "content"}
AllowedStack(st) ==
    \/ st \in Containers \cup {<<>>, <<"feed", "generator">>}
    \/ st # <<>> /\ Front(st) \in Containers /\ Last(st) \in LeafNames

\* C6: at every point every end tag written closed the innermost open
\* element and the open elements are one of the allowed stacks; when
\* write_to returns Ok nothing is left open and the last event is </feed>.
\* (A failed call's sink is the sink of the point where the write failed.)
C6_WellFormed ==
    LET r == StackOf(sink)
    IN  pc \in {"writing", "ok"} =>
            /\ r.ok
            /\ AllowedStack(r.stack)
            /\ pc = "ok" =>
                 /\ result = <<"Ok">>
                 /\ r.stack = <<>>
                 /\ sink # <<>>
                 /\ Last(sink) = End("feed")
                 /\ sink[2].kind = "Start" /\ sink[2].name = "feed"

C6_Witness ==
    /\ pc = "ok"
    /\ IsSome(feed.generator)
    /\ Len(feed.entries) >= 1
    /\ \E k \in 1..Len(feed.entries) :
         feed.entries[k].authors # <<>> /\ feed.entries[k].contributors # <<>>
    /\ StackOf(sink).stack = <<>>


(***************************************************************************)
(* C2.  The children of an <entry> come in the order: title, link,         *)
(* published, updated, id, authors, contributors, categories, summary,     *)
(* content.                                                                *)
(***************************************************************************)
EntryRank(ev) ==
    CASE ev.kind = "Start" ->
            (CASE ev.name = "title" -> 1
               [] ev.name = "published" -> 3
               [] ev.name = "updated" -> 4
               [] ev.name = "id" -> 5
               [] ev.name = "author" -> 6
               [] ev.name = "contributor" -> 7
               [] ev.name = "summary" -> 9
               [] ev.name = "content" -> 10
               [] OTHER -> 99)
      [] ev.kind = "Empty" ->
            (CASE ev.name = "link" -> 2
               [] ev.name = "category" -> 8
               [] OTHER -> 99)
      [] OTHER -> 99

\* A child of an entry as read from the sink: its step, its attributes in
\* order, and its text (for an author or contributor, the person's name).
ChildAt(s, j) ==
    <<EntryRank(s[j]), s[j].attrs,
      IF s[j].kind = "Empty" THEN ""
      ELSE IF s[j].name \in {"author", "contributor"} THEN s[j + 2].text
      ELSE s[j + 1].text>>

\* The children of the entry block s[a..b], in the order written.
ChildrenOf(s, a, b) ==
    LET depth == Depths(s)
        IsChild(j) == a < j /\ j < b /\ depth[j] = 2 /\ s[j].kind \in {"Start", "Empty"}
        at == SelectSeq(Indices(s), IsChild)
    IN  [m \in 1..Len(at) |-> ChildAt(s, at[m])]

ExpectedChildren(e) ==
    <<<<1, <<>>, e.title>>>>
    \o (IF IsSome(e.uri)
        THEN <<<<2, <<<<"href", Unwrap(e.uri)>>, <<"rel", "alternate">>,
                      <<"type", "text/html">>, <<"title", e.title>>>>, "">>>>
        ELSE <<>>)
    \o (IF IsSome(e.published) THEN <<<<3, <<>>, to_rfc3339(Unwrap(e.published))>>>> ELSE <<>>)
    \o (IF IsSome(e.updated) THEN <<<<4, <<>>, to_rfc3339(Unwrap(e.updated))>>>> ELSE <<>>)
    \o (IF IsSome(e.id) THEN <<<<5, <<>>, Unwrap(e.id)>>>> ELSE <<>>)
    \o [i \in 1..Len(e.authors) |-> <<6, <<>>, e.authors[i].name>>]
    \o [i \in 1..Len(e.contributors) |-> <<7, <<>>, e.contributors[i].name>>]
    \o [i \in 1..Len(e.categories) |-> <<8, <<<<"term", e.categories[i]>>>>, "">>]
    \o (IF IsSome(e.summary)
        THEN <<<<9, <<<<"type", "html">>>>, Unwrap(e.summary)>>>> ELSE <<>>)
    \o (IF IsSome(e.content)
        THEN <<<<10, <<<<"type", "html">>>>, Unwrap(e.content)>>>> ELSE <<>>)

\* C2: in a successful serialization the children of the k-th entry block
\* are, in this order and with these attributes, the entry's title, link,
\* published, updated, id, its authors in list order, its contributors in
\* list order, its categories in list order, summary and content.
C2_EntryOrder ==
    pc = "ok" =>
        LET a == EntryStarts(sink)
            b == EntryEnds(sink)
        IN  /\ Len(a) = Len(feed.entries) /\ Len(b) = Len(a)
            /\ \A k \in 1..Len(a) :
                 ChildrenOf(sink, a[k], b[k]) = ExpectedChildren(feed.entries[k])

C2_Witness ==
    /\ pc = "ok"
    /\ \E k \in 1..Len(feed.entries) :
         LET e == feed.entries[k]
         IN  /\ IsSome(e.uri) /\ IsSome(e.published) /\ IsSome(e.updated)
             /\ IsSome(e.id) /\ IsSome(e.summary) /\ IsSome(e.content)
             /\ Len(e.authors) >= 2 /\ Len(e.contributors) >= 2
             /\ Len(e.categories) >= 2
             /\ Len(ChildrenOf(sink, EntryStarts(sink)[k], EntryEnds(sink)[k]))
                  = 7 + Len(e.authors) + Len(e.contributors) + Len(e.categories)

(***************************************************************************)
(* C7.  A person is written inside its own wrapper: name, uri, email.      *)
(***************************************************************************)
\* The places where an <author> or <contributor> block opens.
WrapperStarts(s) ==
    LET depth == Depths(s)
        IsWrapper(j) == depth[j] = 2 /\ s[j].kind = "Start"
                        /\ s[j].name \in {"author", "contributor"}
    IN  SelectSeq(Indices(s), IsWrapper)
\* The place of the first end tag named name after place j.
CloseOf(s, j) ==
    LET ends == {i \in (j + 1)..Len(s) : s[i].kind = "End" /\ s[i].name = s[j].name}
    IN  CHOOSE i \in ends : \A h \in ends : i <= h
\* The events between a wrapper's start tag at j and its end tag.
InnerOf(s, j) == SubSeq(s, j + 1, CloseOf(s, j) - 1)
\* inner is a run of leaf elements: start tag without attribute, text, end tag.
IsLeafRun(inner) ==
    /\ Len(inner) % 3 = 0
    /\ \A m \in 1..(Len(inner) \div 3) :
         /\ inner[3 * m - 2].kind = "Start" /\ inner[3 * m - 2].attrs = <<>>
         /\ inner[3 * m - 1].kind = "Text"
         /\ inner[3 * m] = End(inner[3 * m - 2].name)
LeavesOf(inner) ==
    [m \in 1..(Len(inner) \div 3) |-> <<inner[3 * m - 2].name, inner[3 * m - 1].text>>]
ExpectedLeaves(p) ==
    <<<<"name", p.name>>>>
    \o (IF IsSome(p.uri) THEN <<<<"uri", Unwrap(p.uri)>>>> ELSE <<>>)
    \o (IF IsSome(p.email) THEN <<<<"email", Unwrap(p.email)>>>> ELSE <<>>)
\* The persons of a feed with the wrapper each is written in, in the order
\* of the traversal.
PersonsOf(f) ==
    Concat([k \in 1..Len(f.entries) |->
              [i \in 1..Len(f.entries[k].authors) |->
                 <<"author", f.entries[k].authors[i]>>]
              \o [i \in 1..Len(f.entries[k].contributors) |->
                    <<"contributor", f.entries[k].contributors[i]>>]])

\* C7: a successful serialization holds one wrapper per person, in
\* traversal order, named after the list the person is in; between the
\* wrapper's tags are exactly that person's name, then uri if set, then
\* email if set, and nothing else; person elements occur nowhere else.
C7_PersonBlocks ==
    pc = "ok" =>
        LET w == WrapperStarts(sink)
            ps == PersonsOf(feed)
            depth == Depths(sink)
        IN  /\ Len(w) = Len(ps)
            /\ \A k \in 1..Len(w) :
                 /\ sink[w[k]].name = ps[k][1]
                 /\ IsLeafRun(InnerOf(sink, w[k]))
                 /\ LeavesOf(InnerOf(sink, w[k])) = ExpectedLeaves(ps[k][2])
            /\ \A j \in 1..Len(sink) :
                 sink[j].name \in {"name", "uri", "email"} =>
                     /\ depth[j] = IF sink[j].kind = "End" THEN 4 ELSE 3
                     /\ \E k \in 1..Len(w) : w[k] < j /\ j < CloseOf(sink, w[k])

C7_Witness ==
    /\ pc = "ok"
    /\ \E k \in 1..Len(feed.entries) :
         /\ Len(feed.entries[k].authors) >= 2
         /\ Len(feed.entries[k].contributors) >= 1
         /\ \E i \in 1..Len(feed.entries[k].authors) :
              LET p == feed.entries[k].authors[i]
              IN  IsSome(p.uri) /\ IsSome(p.email)
         /\ \E i \in 1..Len(feed.entries[k].authors) :
              LET p == feed.entries[k].authors[i]
              IN  p.uri = None /\ IsSome(p.email)
    /\ Len(WrapperStarts(sink)) = Len(PersonsOf(feed))


(***************************************************************************)
(* C4.  An optional element or attribute is written exactly when its       *)
(* field is present.                                                       *)
(***************************************************************************)
\* The values an Option holds: none or one.
AsSet(o) == {o[i] : i \in 1..Len(o)}
\* The places in s[a..b] of the elements named name at depth d.
PlacesOf(s, a, b, d, name) ==
    LET depth == Depths(s)
    IN  {j \in a..b : depth[j] = d /\ s[j].kind \in {"Start", "Empty"} /\ s[j].name = name}
\* Those elements' texts.
TextsOf(s, a, b, d, name) == {s[j + 1].text : j \in PlacesOf(s, a, b, d, name)}
\* The href values of the links with the given rel at depth d in s[a..b].
HrefsOf(s, a, b, d, rel) ==
    {Unwrap(AttrOf(s[j], "href")) :
        j \in {i \in PlacesOf(s, a, b, d, "link") : AttrOf(s[i], "rel") = Some(rel)}}
\* At most one element named name at depth d in s[a..b], holding text
\* exactly when the option o holds it.
Emitted(s, a, b, d, name, o) ==
    /\ Cardinality(PlacesOf(s, a, b, d, name)) = Len(o)
    /\ TextsOf(s, a, b, d, name) = AsSet(o)
Rfc(o) == IF IsSome(o) THEN Some(to_rfc3339(Unwrap(o))) ELSE None

\* The number of persons of the feed with a uri, and with an email.
UriCount(f) ==
    LET ps == PersonsOf(f) IN Cardinality({k \in 1..Len(ps) : IsSome(ps[k][2].uri)})
EmailCount(f) ==
    LET ps == PersonsOf(f) IN Cardinality({k \in 1..Len(ps) : IsSome(ps[k][2].email)})

\* C4: in a successful serialization each optional element of the feed, of
\* its generator, of each entry and of the persons is there once, with the
\* field's value (the empty string included), when the field is present and
\* not at all when it is absent; and a feed with only its title serializes
\* to the declaration, <feed xmlns=..>, <title>, the text, </title>, </feed>.
C4_OptionalIffPresent ==
    pc = "ok" =>
        LET n == Len(sink)
            a == EntryStarts(sink)
            b == EntryEnds(sink)
            gens == PlacesOf(sink, 1, n, 1, "generator")
        IN  /\ Cardinality(gens) = Len(feed.generator)
            /\ \A j \in gens :
                 /\ AttrOf(sink[j], "uri") = Unwrap(feed.generator).uri
                 /\ AttrOf(sink[j], "version") = Unwrap(feed.generator).version
                 /\ Len(sink[j].attrs) = Len(Unwrap(feed.generator).uri)
                                         + Len(Unwrap(feed.generator).version)
                 /\ sink[j + 1] = Text(Unwrap(feed.generator).name)
            /\ Cardinality(PlacesOf(sink, 1, n, 1, "link"))
                 = Len(feed.self_uri) + Len(feed.uri)
            /\ HrefsOf(sink, 1, n, 1, "self") = AsSet(feed.self_uri)
            /\ HrefsOf(sink, 1, n, 1, "alternate") = AsSet(feed.uri)
            /\ Emitted(sink, 1, n, 1, "published", Rfc(feed.published))
            /\ Emitted(sink, 1, n, 1, "updated", Rfc(feed.updated))
            /\ Emitted(sink, 1, n, 1, "id", feed.id)
            /\ Emitted(sink, 1, n, 1, "title", Some(feed.title))
            /\ Emitted(sink, 1, n, 1, "subtitle", feed.subtitle)
            /\ Len(a) = Len(feed.entries) /\ Len(b) = Len(a)
            /\ \A k \in 1..Len(a) :
                 LET e == feed.entries[k]
                 IN  /\ Cardinality(PlacesOf(sink, a[k], b[k], 2, "link")) = Len(e.uri)
                     /\ HrefsOf(sink, a[k], b[k], 2, "alternate") = AsSet(e.uri)
                     /\ Emitted(sink, a[k], b[k], 2, "published", Rfc(e.published))
                     /\ Emitted(sink, a[k], b[k], 2, "updated", Rfc(e.updated))
                     /\ Emitted(sink, a[k], b[k], 2, "id", e.id)
                     /\ Emitted(sink, a[k], b[k], 2, "title", Some(e.title))
                     /\ Emitted(sink, a[k], b[k], 2, "summary", e.summary)
                     /\ Emitted(sink, a[k], b[k], 2, "content", e.content)
            /\ Cardinality(PlacesOf(sink, 1, n, 3, "uri")) = UriCount(feed)
            /\ Cardinality(PlacesOf(sink, 1, n, 3, "email")) = EmailCount(feed)
            /\ feed = AtomFeedBuilder_build(AtomFeedBuilder_new(feed.title)) =>
                 sink = <<Decl("1.0", "utf-8"),
                          Start("feed", <<<<"xmlns", "http://www.w3.org/2005/Atom">>>>),
                          Start("title", <<>>), Text(feed.title), End("title"),
                          End("feed")>>

\* A present, empty id beside absent fields: <id></id> is in the document.
C4_Witness ==
    /\ pc = "ok"
    /\ feed.id = Some("")
    /\ feed.generator = None /\ feed.subtitle = None /\ feed.entries = <<>>
    /\ TextsOf(sink, 1, Len(sink), 1, "id") = {""}
    /\ Len(sink) = 9

(***************************************************************************)
(* C8.  The rights field is never written.                                 *)
(***************************************************************************)
\* The texts and attribute values an event carries.
Carried(ev) == {ev.text} \cup {ev.attrs[i][2] : i \in 1..Len(ev.attrs)}

\* C8: what a serialization has written is what it would have written for
\* the same feed with rights absent or set to any other value, no element
\* is named rights, and no text or attribute value is the rights value.
\* (A failed call's sink is the sink of the point where the write failed.)
C8_RightsNeverWritten ==
    /\ pc = "writing" =>
         \A r \in Rights \ {feed.rights} :
            IsPrefix(sink, AtomFeed_write([feed EXCEPT !.rights = r]))
    /\ pc = "ok" =>
         \A r \in Rights : sink = AtomFeed_write([feed EXCEPT !.rights = r])
    /\ \A j \in 1..Len(sink) :
         /\ sink[j].name # "rights"
         /\ \A i \in 1..Len(sink[j].attrs) : sink[j].attrs[i][1] # "rights"
         /\ AsSet(feed.rights) \cap Carried(sink[j]) = {}

C8_Witness ==
    /\ pc = "ok"
    /\ feed.rights = Some("(c) Ben")
    /\ Len(feed.entries) >= 1
    /\ sink = AtomFeed_write([feed EXCEPT !.rights = None])

(***************************************************************************)
(* C10.  What build() yields is what the setter calls said.                *)
(***************************************************************************)
\* feed f holds title t and, per field, what the latest call of the
\* field's setter gave (l), or the initial value where it was never called.
Holds(f, t, l) ==
    /\ DOMAIN f = SetterFields \cup {"title"}
    /\ f.title = t
    /\ \A field \in SetterFields \ {"entries"} : f[field] = l[field]
    /\ f.entries = IF l.entries = None THEN <<>> ELSE Unwrap(l.entries)

\* C10: after new(title) and any setter calls the builder holds title and,
\* per field, the latest argument of its setter or the initial value; so a
\* call changed its own field only; and build() yields that feed.
C10_BuilderFrame ==
    /\ Holds(builder, title0, last)
    /\ bpc = "built" => feed = builder /\ Holds(feed, title0, last)

\* Built after a repeated call: more calls than fields set, entries among them.
C10_Witness ==
    /\ bpc = "built"
    /\ calls >= 4
    /\ Cardinality({field \in SetterFields : last[field] # None}) = 2
    /\ last.entries # None /\ Len(feed.entries) = 2
    /\ last.rights = None /\ feed.rights = None
    /\ IsSome(feed.uri)

=============================================================================
